---- MODULE Spec2Model ----
(***************************************************************************)
(* deliveryoptimizer-api (services/deliveryoptimizer-api/server.py).       *)
(*                                                                         *)
(* One worker handles one request at a time and shares nothing with other  *)
(* workers, so the model follows a single worker through a request:        *)
(* POST /api/v1/deliveries/optimize (read, validate, translate, run the    *)
(* solver, reconcile, respond) and GET /health.                            *)
(***************************************************************************)
EXTENDS Integers, Sequences, FiniteSets, TLC

(***************************************************************************)
(* Bounds of the model.                                                    *)
(***************************************************************************)
\* vehicles plus jobs listed in one request body
MaxItems == 3
\* vehicle and job references (routes, job steps, unassigned entries) in one
\* solver output
MaxRefs == 2

(***************************************************************************)
(* Decoded JSON values, as json.loads produces them.  A value is a record  *)
(* tagged with its Python type; an object carries a function from its keys *)
(* to values, a list carries a sequence.                                   *)
(***************************************************************************)
Null == [t |-> "null"]
JBool(b) == [t |-> "bool", b |-> b]
JInt(n) == [t |-> "int", n |-> n]
JStr(s) == [t |-> "str", s |-> s]
List(l) == [t |-> "list", l |-> l]
Obj(o) == [t |-> "obj", o |-> o]
EmptyObj == Obj([k \in {} |-> Null])

IsDict(v) == v.t = "obj"
IsList(v) == v.t = "list"
\* isinstance(v, int): bool is a subclass of int
IsInt(v) == v.t \in {"int", "bool"}
\* isinstance(v, (int, float))
IsNumber(v) == v.t \in {"int", "bool", "float"}
\* the number a Python int, bool or float stands for
Num(v) == IF v.t = "bool" THEN (IF v.b THEN 1 ELSE 0) ELSE v.n

\* dict.get(key, default) on the key/value function of an object
Get(o, key, default) == IF key \in DOMAIN o THEN o[key] ELSE default

\* str(value) for the scalar values an 'id' can hold
PyStr(v) ==
    CASE v.t = "str" -> v.s
      [] v.t = "int" -> ToString(v.n)
      [] v.t = "bool" -> (IF v.b THEN "True" ELSE "False")
      [] v.t = "null" -> "None"

\* str.strip(): leading and trailing whitespace removed
IsSpace(c) == c \in {" ", "\t", "\n", "\r"}
RECURSIVE lstrip(_)
lstrip(s) ==
    IF Len(s) > 0 /\ IsSpace(SubSeq(s, 1, 1))
    THEN lstrip(SubSeq(s, 2, Len(s)))
    ELSE s
RECURSIVE rstrip(_)
rstrip(s) ==
    IF Len(s) > 0 /\ IsSpace(SubSeq(s, Len(s), Len(s)))
    THEN rstrip(SubSeq(s, 1, Len(s) - 1))
    ELSE s
strip(s) == rstrip(lstrip(s))

(***************************************************************************)
(* is_coord                                                                *)
(***************************************************************************)
is_coord(value) ==
    /\ IsList(value)
    /\ Len(value.l) = 2
    /\ \A i \in 1..2 : IsNumber(value.l[i])
    /\ -180 <= Num(value.l[1]) /\ Num(value.l[1]) <= 180
    /\ -90 <= Num(value.l[2]) /\ Num(value.l[2]) <= 90

\* the test validate_payload applies to a time window; TRUE when it is bad
bad_time_window(tw) ==
    \/ ~IsList(tw)
    \/ Len(tw.l) # 2
    \/ ~(\A i \in 1..2 : IsInt(tw.l[i]))
    \/ Num(tw.l[1]) > Num(tw.l[2])

(***************************************************************************)
(* validate_payload.  The messages are the source's, with the backquotes   *)
(* around a field name written as apostrophes.                             *)
(***************************************************************************)
depot_errors(o) ==
    LET depot == Get(o, "depot", Null) IN
    IF ~IsDict(depot)
    THEN <<"'depot' is required and must be an object.">>
    ELSE IF ~is_coord(Get(depot.o, "location", Null))
         THEN <<"'depot.location' must be [lon, lat].">>
         ELSE <<>>

vehicle_errors(idx, vehicle) ==
    LET pre == "'vehicles[" \o ToString(idx) \o "]" IN
    IF ~IsDict(vehicle)
    THEN <<pre \o "' must be an object.">>
    ELSE LET v == vehicle.o
             capacity == Get(v, "capacity", Null)
             tw == Get(v, "time_window", Null)
         IN (IF ~IsInt(capacity) \/ Num(capacity) <= 0
             THEN <<pre \o ".capacity' must be a positive integer.">>
             ELSE <<>>)
            \o (IF "start" \in DOMAIN v /\ ~is_coord(v["start"])
                THEN <<pre \o ".start' must be [lon, lat].">>
                ELSE <<>>)
            \o (IF "end" \in DOMAIN v /\ ~is_coord(v["end"])
                THEN <<pre \o ".end' must be [lon, lat].">>
                ELSE <<>>)
            \o (IF "time_window" \in DOMAIN v /\ bad_time_window(tw)
                THEN <<pre \o ".time_window' must be [start, end] in epoch seconds.">>
                ELSE <<>>)

job_errors(idx, job) ==
    LET pre == "'jobs[" \o ToString(idx) \o "]" IN
    IF ~IsDict(job)
    THEN <<pre \o "' must be an object.">>
    ELSE LET j == job.o
             demand == Get(j, "demand", JInt(1))
             service == Get(j, "service", Null)
             tws == Get(j, "time_windows", Null)
         IN (IF ~is_coord(Get(j, "location", Null))
             THEN <<pre \o ".location' must be [lon, lat].">>
             ELSE <<>>)
            \o (IF ~IsInt(demand) \/ Num(demand) <= 0
                THEN <<pre \o ".demand' must be a positive integer.">>
                ELSE <<>>)
            \o (IF service # Null /\ (~IsInt(service) \/ Num(service) < 0)
                THEN <<pre \o ".service' must be a non-negative integer in seconds.">>
                ELSE <<>>)
            \o (IF "time_windows" \in DOMAIN j
                THEN IF ~IsList(tws) \/ Len(tws.l) = 0
                     THEN <<pre \o ".time_windows' must be a non-empty array of [start, end].">>
                     ELSE IF \E i \in 1..Len(tws.l) : bad_time_window(tws.l[i])
                          THEN <<pre \o ".time_windows' entries must be [start, end] epoch seconds.">>
                          ELSE <<>>
                ELSE <<>>)

\* the errors of the elements idx..Len(l) of a vehicles (kind "v") or jobs list
RECURSIVE element_errors(_, _, _)
element_errors(kind, l, idx) ==
    IF idx > Len(l)
    THEN <<>>
    ELSE (IF kind = "v" THEN vehicle_errors(idx, l[idx]) ELSE job_errors(idx, l[idx]))
         \o element_errors(kind, l, idx + 1)

vehicles_errors(o) ==
    LET vehicles == Get(o, "vehicles", Null) IN
    IF ~IsList(vehicles) \/ Len(vehicles.l) = 0
    THEN <<"'vehicles' is required and must be a non-empty array.">>
    ELSE element_errors("v", vehicles.l, 1)

jobs_errors(o) ==
    LET jobs == Get(o, "jobs", Null) IN
    IF ~IsList(jobs) \/ Len(jobs.l) = 0
    THEN <<"'jobs' is required and must be a non-empty array.">>
    ELSE element_errors("j", jobs.l, 1)

\* validate_payload, were it to stop at the first field in error
validate_payload_first_only(p) ==
    IF ~IsDict(p)
    THEN <<"Payload must be a JSON object.">>
    ELSE IF depot_errors(p.o) # <<>>
         THEN depot_errors(p.o)
         ELSE IF vehicles_errors(p.o) # <<>>
              THEN vehicles_errors(p.o)
              ELSE jobs_errors(p.o)

validate_payload(p) ==
    IF ~IsDict(p)
    THEN <<"Payload must be a JSON object.">>
    ELSE depot_errors(p.o) \o vehicles_errors(p.o) \o jobs_errors(p.o)

(***************************************************************************)
(* build_vroom_request.  A subscript on a missing key (payload["depot"],   *)
(* vehicle["capacity"], job["location"]) or on a value that is no object   *)
(* raises; translation_raises says when.                                   *)
(***************************************************************************)
translation_raises(p) ==
    \/ ~IsDict(p)
    \/ "depot" \notin DOMAIN p.o
    \/ ~IsDict(p.o["depot"])
    \/ "location" \notin DOMAIN p.o["depot"].o
    \/ "vehicles" \notin DOMAIN p.o
    \/ ~IsList(p.o["vehicles"])
    \/ \E i \in 1..Len(p.o["vehicles"].l) :
          LET vehicle == p.o["vehicles"].l[i] IN
          ~IsDict(vehicle) \/ "capacity" \notin DOMAIN vehicle.o
    \/ "jobs" \notin DOMAIN p.o
    \/ ~IsList(p.o["jobs"])
    \/ \E i \in 1..Len(p.o["jobs"].l) :
          LET job == p.o["jobs"].l[i] IN
          ~IsDict(job) \/ "location" \notin DOMAIN job.o

vroom_vehicle(idx, vehicle, depot_location) ==
    LET v == vehicle.o
        entry == ("id" :> JInt(idx))
                 @@ ("capacity" :> List(<<v["capacity"]>>))
                 @@ ("start" :> Get(v, "start", depot_location))
                 @@ ("end" :> Get(v, "end", depot_location))
        tw == Get(v, "time_window", Null)
    IN Obj(IF tw # Null THEN ("time_window" :> tw) @@ entry ELSE entry)

vroom_job(idx, job) ==
    LET j == job.o
        demand == Get(j, "demand", JInt(1))
        entry == ("id" :> JInt(idx))
                 @@ ("location" :> j["location"])
                 @@ ("service" :> Get(j, "service", JInt(300)))
                 @@ ("delivery" :> List(<<demand>>))
        tws == Get(j, "time_windows", Null)
    IN Obj(IF tws # Null THEN ("time_windows" :> tws) @@ entry ELSE entry)

\* external_id, were the default to count from 0
external_id_zero_based(idx, entity, prefix) ==
    PyStr(Get(entity.o, "id", JStr(prefix \o "-" \o ToString(idx - 1))))

\* vehicle_map[idx] / job_map[idx]: str(entity.get("id", "<prefix>-<idx>"))
external_id(idx, entity, prefix) ==
    PyStr(Get(entity.o, "id", JStr(prefix \o "-" \o ToString(idx))))

build_vroom_request(p) ==
    LET depot_location == p.o["depot"].o["location"]
        vehicles == p.o["vehicles"].l
        jobs == p.o["jobs"].l
    IN [request |->
            Obj(("vehicles" :> List([i \in 1..Len(vehicles) |->
                                        vroom_vehicle(i, vehicles[i], depot_location)]))
                @@ ("jobs" :> List([i \in 1..Len(jobs) |-> vroom_job(i, jobs[i])]))),
        vehicle_map |-> [i \in 1..Len(vehicles) |-> external_id(i, vehicles[i], "vehicle")],
        job_map |-> [i \in 1..Len(jobs) |-> external_id(i, jobs[i], "job")]]

(***************************************************************************)
(* Text read from a stream (the request body, the solver's standard        *)
(* output, the probe's body) is modelled by what decoding makes of it:     *)
(*   [kind |-> "blank", text |-> s]   only whitespace, or nothing          *)
(*   [kind |-> "undecodable"]         bytes that are no UTF-8              *)
(*   [kind |-> "malformed"]           text that is no JSON document        *)
(*   [kind |-> "json", doc |-> v]     the JSON text of the value v         *)
(***************************************************************************)
\* not text.strip()
is_blank(text) == text.kind = "blank" /\ strip(text.text) = ""

\* json.loads(text): the decoded value, or the exception raised
json_loads(text) ==
    IF text.kind = "json"
    THEN [exc |-> "none", v |-> text.doc]
    ELSE [exc |-> "JSONDecodeError", v |-> Null]

(***************************************************************************)
(* run_vroom, from the return of subprocess.run on.  proc is what          *)
(* subprocess.run did:                                                     *)
(*   [kind |-> "oserror", exc |-> e]  the solver could not be started      *)
(*   [kind |-> "timeout"]             TimeoutExpired                       *)
(*   [kind |-> "exit", returncode, stdout, stderr]                         *)
(* The value is [exc, msg, v]: the exception raised with str(exception),   *)
(* or exc = "none" and the decoded solution v.                             *)
(***************************************************************************)
\* the unlink, were it to follow subprocess.run outside a finally clause
exists_without_finally(proc, exists) == exists /\ proc.kind # "exit"

\* the finally clause: os.unlink(input_path), whatever subprocess.run did
exists_after_finally(proc, exists) == FALSE

\* run_vroom, were it to raise the error stream as it is
run_vroom_result_unstripped(proc) ==
    CASE proc.kind = "oserror" -> [exc |-> proc.exc, msg |-> "", v |-> Null]
      [] proc.kind = "timeout" -> [exc |-> "TimeoutExpired", msg |-> "", v |-> Null]
      [] proc.kind = "exit" ->
            IF proc.returncode # 0
            THEN [exc |-> "RuntimeError",
                  msg |-> IF proc.stderr # "" THEN proc.stderr ELSE "Unknown VROOM error",
                  v |-> Null]
            ELSE IF is_blank(proc.stdout)
                 THEN [exc |-> "RuntimeError", msg |-> "VROOM returned no output.", v |-> Null]
                 ELSE [exc |-> json_loads(proc.stdout).exc,
                       msg |-> "",
                       v |-> json_loads(proc.stdout).v]

run_vroom_result(proc) ==
    CASE proc.kind = "oserror" -> [exc |-> proc.exc, msg |-> "", v |-> Null]
      [] proc.kind = "timeout" -> [exc |-> "TimeoutExpired", msg |-> "", v |-> Null]
      [] proc.kind = "exit" ->
            IF proc.returncode # 0
            THEN [exc |-> "RuntimeError",
                  msg |-> IF strip(proc.stderr) # ""
                          THEN strip(proc.stderr)
                          ELSE "Unknown VROOM error",
                  v |-> Null]
            ELSE IF is_blank(proc.stdout)
                 THEN [exc |-> "RuntimeError", msg |-> "VROOM returned no output.", v |-> Null]
                 ELSE [exc |-> json_loads(proc.stdout).exc,
                       msg |-> "",
                       v |-> json_loads(proc.stdout).v]

(***************************************************************************)
(* add_external_ids.  The value is [exc, v]: exc = "none" and the          *)
(* annotated value, or the exception the traversal raises (.get on a value *)
(* that is no object, iteration over a value that is no list, a membership *)
(* test of an unhashable value in a map).                                  *)
(***************************************************************************)
Hashable(v) == v.t \notin {"list", "obj"}
\* value in map, for a map keyed by the integers 1..n
InMap(v, map) == IsNumber(v) /\ Num(v) \in DOMAIN map

\* annotate, were the lookup map[entry.get(key)] made without the
\* membership test
annotate_fail_closed(entry, key, ext_key, map) ==
    IF ~IsDict(entry)
    THEN [exc |-> "AttributeError", v |-> entry]
    ELSE LET internal == Get(entry.o, key, Null) IN
         IF ~Hashable(internal)
         THEN [exc |-> "TypeError", v |-> entry]
         ELSE IF InMap(internal, map)
              THEN [exc |-> "none",
                    v |-> Obj((ext_key :> JStr(map[Num(internal)])) @@ entry.o)]
              ELSE [exc |-> "KeyError", v |-> entry]

\* entry[ext_key] = map[entry.get(key)] when entry.get(key) is in the map
annotate(entry, key, ext_key, map) ==
    IF ~IsDict(entry)
    THEN [exc |-> "AttributeError", v |-> entry]
    ELSE LET internal == Get(entry.o, key, Null) IN
         IF ~Hashable(internal)
         THEN [exc |-> "TypeError", v |-> entry]
         ELSE IF InMap(internal, map)
              THEN [exc |-> "none",
                    v |-> Obj((ext_key :> JStr(map[Num(internal)])) @@ entry.o)]
              ELSE [exc |-> "none", v |-> entry]

\* for entry in entries: annotate; entries is entity.get(list_key, [])
annotate_list(entries, key, ext_key, map) ==
    IF ~IsList(entries)
    THEN [exc |-> "TypeError", v |-> entries]
    ELSE LET done == [i \in 1..Len(entries.l) |-> annotate(entries.l[i], key, ext_key, map)]
             failed == {i \in 1..Len(entries.l) : done[i].exc # "none"}
         IN IF failed = {}
            THEN [exc |-> "none", v |-> List([i \in 1..Len(entries.l) |-> done[i].v])]
            ELSE [exc |-> done[CHOOSE i \in failed : \A k \in failed : i <= k].exc,
                  v |-> entries]

\* the body of the loop over solution["routes"]
annotate_route(route, vehicle_map, job_map) ==
    LET r == annotate(route, "vehicle", "vehicle_external_id", vehicle_map) IN
    IF r.exc # "none"
    THEN r
    ELSE IF "steps" \notin DOMAIN r.v.o
         THEN r
         ELSE LET s == annotate_list(r.v.o["steps"], "job", "job_external_id", job_map) IN
              IF s.exc # "none"
              THEN [exc |-> s.exc, v |-> route]
              ELSE [exc |-> "none", v |-> Obj(("steps" :> s.v) @@ r.v.o)]

annotate_routes(routes, vehicle_map, job_map) ==
    IF ~IsList(routes)
    THEN [exc |-> "TypeError", v |-> routes]
    ELSE LET done == [i \in 1..Len(routes.l) |->
                         annotate_route(routes.l[i], vehicle_map, job_map)]
             failed == {i \in 1..Len(routes.l) : done[i].exc # "none"}
         IN IF failed = {}
            THEN [exc |-> "none", v |-> List([i \in 1..Len(routes.l) |-> done[i].v])]
            ELSE [exc |-> done[CHOOSE i \in failed : \A k \in failed : i <= k].exc,
                  v |-> routes]

add_external_ids(solution, vehicle_map, job_map) ==
    IF ~IsDict(solution)
    THEN [exc |-> "AttributeError", v |-> solution]
    ELSE LET s == solution.o
             routes == IF "routes" \in DOMAIN s
                       THEN annotate_routes(s["routes"], vehicle_map, job_map)
                       ELSE [exc |-> "none", v |-> Null]
             unassigned == IF "unassigned" \in DOMAIN s
                           THEN annotate_list(s["unassigned"], "id", "job_external_id", job_map)
                           ELSE [exc |-> "none", v |-> Null]
         IN IF routes.exc # "none"
            THEN [exc |-> routes.exc, v |-> solution]
            ELSE IF unassigned.exc # "none"
                 THEN [exc |-> unassigned.exc, v |-> solution]
                 ELSE [exc |-> "none",
                       v |-> Obj([k \in DOMAIN s |->
                                    CASE k = "routes" -> routes.v
                                      [] k = "unassigned" -> unassigned.v
                                      [] OTHER -> s[k]])]

(***************************************************************************)
(* check_osrm and handle_health.  probe is what urlopen did:               *)
(*   [kind |-> "raise", exc |-> e, msg |-> str(e)]                         *)
(*   [kind |-> "response", status |-> n, body |-> text]                    *)
(* A body of kind "truncated" is one whose read fails midway.              *)
(***************************************************************************)
\* json.loads(response.read().decode("utf-8"))
read_json(text) ==
    CASE text.kind = "truncated" -> [exc |-> "IncompleteRead", v |-> Null]
      [] text.kind = "undecodable" -> [exc |-> "UnicodeDecodeError", v |-> Null]
      [] OTHER -> json_loads(text)

\* [exc, msg, ready, detail]
check_osrm(probe) ==
    IF probe.kind = "raise"
    THEN [exc |-> probe.exc, msg |-> probe.msg, ready |-> FALSE, detail |-> Null]
    ELSE IF probe.status # 200
         THEN [exc |-> "none", msg |-> "", ready |-> FALSE,
               detail |-> JStr("HTTP " \o ToString(probe.status))]
         ELSE LET body == read_json(probe.body) IN
              IF body.exc # "none"
              THEN [exc |-> body.exc, msg |-> "Expecting value", ready |-> FALSE,
                    detail |-> Null]
              ELSE IF ~IsDict(body.v)
                   THEN [exc |-> "AttributeError", msg |-> "", ready |-> FALSE,
                         detail |-> Null]
                   ELSE [exc |-> "none", msg |-> "",
                         ready |-> (Get(body.v.o, "code", Null) = JStr("Ok")),
                         detail |-> Get(body.v.o, "code", JStr("unknown"))]

\* a response is [status, body]; the body is the key/value function of the
\* JSON object json_response writes
Response(status, body) == [status |-> status, body |-> body]

\* the exceptions handle_health catches around check_osrm
HealthCaught == {"HTTPError", "URLError", "TimeoutError", "JSONDecodeError"}

\* [escaped, sent]: the exception that leaves handle_health ("none" when
\* none does) and the responses it writes
handle_health(vroom_ready, probe) ==
    LET r == check_osrm(probe) IN
    IF r.exc \notin HealthCaught \cup {"none"}
    THEN [escaped |-> r.exc, sent |-> <<>>]
    ELSE LET osrm_ready == IF r.exc = "none" THEN r.ready ELSE FALSE
             detail == IF r.exc = "none" THEN r.detail ELSE JStr(r.msg)
             overall_ready == vroom_ready /\ osrm_ready
         IN [escaped |-> "none",
             sent |-> <<Response(
                 IF overall_ready THEN 200 ELSE 503,
                 ("status" :> JStr(IF overall_ready THEN "ok" ELSE "degraded"))
                 @@ ("checks" :> Obj(
                        ("vroom_binary" :> JStr(IF vroom_ready THEN "ok" ELSE "missing"))
                        @@ ("osrm" :> JStr(IF osrm_ready THEN "ok" ELSE "down"))
                        @@ ("osrm_detail" :> detail))))>>]

(***************************************************************************)
(* handle_optimize: the steps of the handler.                              *)
(***************************************************************************)
\* str.isdigit() of the Content-Length header
isdigit(s) ==
    /\ Len(s) > 0
    /\ \A i \in 1..Len(s) :
          SubSeq(s, i, i) \in {"0", "1", "2", "3", "4", "5", "6", "7", "8", "9"}

\* json.loads(body.decode("utf-8")) of the request body
decode_body(text) ==
    IF text.kind = "undecodable"
    THEN [exc |-> "UnicodeDecodeError", v |-> Null]
    ELSE json_loads(text)

\* the response of the except clauses and of the success path, given what
\* the try block did: [escaped, sent]
optimize_outcome(exc, msg, solution) ==
    CASE exc = "TimeoutExpired" ->
            [escaped |-> "none",
             sent |-> <<Response(504, "error" :> JStr("Optimization timed out."))>>]
      [] exc = "RuntimeError" ->
            [escaped |-> "none",
             sent |-> <<Response(502, ("error" :> JStr("VROOM optimization failed."))
                                      @@ ("details" :> JStr(msg)))>>]
      [] exc = "JSONDecodeError" ->
            [escaped |-> "none",
             sent |-> <<Response(502, "error" :> JStr("VROOM returned invalid JSON."))>>]
      [] exc = "none" ->
            [escaped |-> "none",
             sent |-> <<Response(200,
                 ("status" :> JStr("ok"))
                 @@ ("summary" :> Get(solution.o, "summary", EmptyObj))
                 @@ ("routes" :> Get(solution.o, "routes", List(<<>>)))
                 @@ ("unassigned" :> Get(solution.o, "unassigned", List(<<>>)))
                 @@ ("raw" :> solution))>>]
      [] OTHER -> [escaped |-> exc, sent |-> <<>>]

\* lines 342-364: the rest of the try block after run_vroom, the except
\* clauses and the response
finish_optimize(ran, vehicle_map, job_map) ==
    IF ran.exc # "none"
    THEN optimize_outcome(ran.exc, ran.msg, Null)
    ELSE LET a == add_external_ids(ran.v, vehicle_map, job_map) IN
         optimize_outcome(a.exc, "", a.v)

(***************************************************************************)
(* The inputs the model draws from: request bodies, what the solver        *)
(* process does, what the upstream probe does.                             *)
(***************************************************************************)
SeqsUpTo(S, n) == UNION {[1..k -> S] : k \in 0..n}

\* marks a key left out of an object under construction
Absent == [t |-> "absent"]
\* the object holding the listed keys whose value is not Absent
ObjOf(keys, values) ==
    Obj([k \in {keys[i] : i \in {i \in 1..Len(keys) : values[i] # Absent}} |->
            values[CHOOSE i \in 1..Len(keys) : keys[i] = k]])

Coord(lon, lat) == List(<<JInt(lon), JInt(lat)>>)

ValidVehicles ==
    { ObjOf(<<"capacity">>, <<JInt(10)>>),
      ObjOf(<<"id", "capacity", "start", "time_window">>,
            <<JStr("truck"), JInt(5), Coord(8, 44), List(<<JInt(0), JInt(3600)>>)>>),
      ObjOf(<<"id", "capacity", "end">>, <<JInt(7), JInt(1), Coord(-180, 90)>>) }
InvalidVehicles ==
    { JStr("van"),
      ObjOf(<<"id", "start">>, <<JStr("bike"), Coord(181, 0)>>) }

ValidJobs ==
    { ObjOf(<<"location">>, <<Coord(7, 43)>>),
      ObjOf(<<"id", "location", "demand", "service", "time_windows">>,
            <<JStr("parcel"), Coord(8, 44), JInt(2), JInt(0),
              List(<<List(<<JInt(0), JInt(10)>>)>>)>>),
      ObjOf(<<"id", "location", "service">>, <<JInt(5), Coord(7, 44), Null>>) }
InvalidJobs ==
    { JInt(3),
      ObjOf(<<"location", "demand", "service">>, <<Coord(7, 91), JInt(0), JInt(-1)>>) }

DepotOptions ==
    { Absent, JStr("here"), ObjOf(<<"location">>, <<Coord(7, 430)>>),
      ObjOf(<<"location">>, <<Coord(7, 43)>>) }

\* a 'vehicles' or 'jobs' field: left out, no list, or a list of up to n of
\* the elements
ListOptions(elements, n) ==
    {Absent, JInt(1)} \cup {List(l) : l \in SeqsUpTo(elements, n)}
Items(field) == IF IsList(field) THEN Len(field.l) ELSE 0

Payloads ==
    {JStr("depot"), List(<<>>)}
    \cup {ObjOf(<<"depot", "vehicles", "jobs">>, <<d, v, j>>) :
            d \in DepotOptions,
            <<v, j>> \in {vj \in ListOptions(ValidVehicles \cup InvalidVehicles, MaxItems)
                                 \X ListOptions(ValidJobs \cup InvalidJobs, MaxItems) :
                             Items(vj[1]) + Items(vj[2]) <= MaxItems}}

Bodies ==
    {[kind |-> "undecodable"], [kind |-> "malformed"], [kind |-> "blank", text |-> ""]}
    \cup {[kind |-> "json", doc |-> p] : p \in Payloads}

ContentLengths == {"", "-1", "512"}

\* the solver's indices: 0 stands for an entry without its index key
Indices == 0..MaxItems

StartStep == ObjOf(<<"type", "arrival">>, <<JStr("start"), JInt(0)>>)
JobStep(j) ==
    ObjOf(<<"type", "job", "arrival">>,
          <<JStr("job"), IF j = 0 THEN Absent ELSE JInt(j), JInt(60)>>)
Route(i, v, js) ==
    ObjOf(<<"vehicle", "cost", "steps">>,
          <<IF v = 0 THEN Absent ELSE JInt(v), JInt(10 * i),
            List(<<StartStep>> \o [k \in 1..Len(js) |-> JobStep(js[k])])>>)
Unassigned(u) ==
    ObjOf(<<"id", "type">>, <<IF u = 0 THEN Absent ELSE JInt(u), JStr("job")>>)

\* a solver output with one route per entry of vs, each with a job step per
\* entry of js, and one unassigned entry per entry of us
Solution(vs, js, us) ==
    ObjOf(<<"code", "summary", "routes", "unassigned">>,
          <<JInt(0),
            ObjOf(<<"cost", "unassigned">>, <<JInt(10 * Len(vs)), JInt(Len(us))>>),
            IF vs = <<>> THEN Absent ELSE List([i \in 1..Len(vs) |-> Route(i, vs[i], js)]),
            IF us = <<>> THEN Absent ELSE List([i \in 1..Len(us) |-> Unassigned(us[i])])>>)

Solutions ==
    {Solution(r[1], r[2], r[3]) :
        r \in {r \in SeqsUpTo(Indices, MaxRefs) \X SeqsUpTo(Indices, MaxRefs)
                       \X SeqsUpTo(Indices, MaxRefs) :
                  /\ Len(r[1]) + Len(r[2]) + Len(r[3]) <= MaxRefs
                  /\ (r[1] = <<>> => r[2] = <<>>)}}

\* well-formed JSON that is no solution object
OddDocuments ==
    { List(<<>>),
      JInt(0),
      ObjOf(<<"routes">>, <<Null>>),
      ObjOf(<<"routes">>, <<List(<<JStr("r1")>>)>>),
      ObjOf(<<"routes">>, <<List(<<ObjOf(<<"vehicle">>, <<List(<<JInt(1)>>)>>)>>)>>),
      ObjOf(<<"routes">>, <<List(<<ObjOf(<<"vehicle", "steps">>, <<JInt(1), List(<<JInt(2)>>)>>)>>)>>),
      ObjOf(<<"unassigned">>, <<List(<<JInt(1)>>)>>) }

StderrTexts == {"", " \n", "routing error", "\trouting error: no route\n"}

ProcOutcomes ==
    { [kind |-> "oserror", exc |-> "FileNotFoundError"],
      [kind |-> "oserror", exc |-> "PermissionError"],
      [kind |-> "timeout"] }
    \cup {[kind |-> "exit", returncode |-> 1, stdout |-> [kind |-> "blank", text |-> ""],
           stderr |-> e] : e \in StderrTexts}
    \cup {[kind |-> "exit", returncode |-> 0, stdout |-> out, stderr |-> ""] :
            out \in {[kind |-> "blank", text |-> ""], [kind |-> "blank", text |-> " \n"],
                     [kind |-> "malformed"]}
                    \cup {[kind |-> "json", doc |-> d] : d \in Solutions \cup OddDocuments}}

ProbeOutcomes ==
    { [kind |-> "raise", exc |-> "HTTPError", msg |-> "HTTP Error 500: Internal Server Error"],
      [kind |-> "raise", exc |-> "URLError", msg |-> "<urlopen error [Errno 111] Connection refused>"],
      [kind |-> "raise", exc |-> "TimeoutError", msg |-> "timed out"] }
    \cup {[kind |-> "response", status |-> 204, body |-> [kind |-> "blank", text |-> ""]]}
    \cup {[kind |-> "response", status |-> 200, body |-> b] :
            b \in {[kind |-> "truncated"], [kind |-> "undecodable"], [kind |-> "malformed"],
                   [kind |-> "blank", text |-> ""]}
                  \cup {[kind |-> "json", doc |-> d] :
                          d \in {ObjOf(<<"code">>, <<JStr("Ok")>>),
                                 ObjOf(<<"code", "message">>,
                                       <<JStr("NoSegment"), JStr("no segment")>>),
                                 ObjOf(<<"message">>, <<JStr("hello")>>),
                                 List(<<>>), JStr("Ok")}}}

(***************************************************************************)
(* The state of one worker.                                                *)
(***************************************************************************)
VARIABLES
    pc,           \* where the worker is: "idle", "parsed", "valid", "built",
                  \* "tmp" (inside run_vroom, input file written),
                  \* "returned" (run_vroom returned or raised), "done"
    endpoint,     \* "none", "optimize" or "health": the request being handled
    payload,      \* the decoded request body
    built,        \* what build_vroom_request returned
    tmp_exists,   \* the temporary input file of run_vroom is on disk
    proc,         \* what subprocess.run did
    ran,          \* what run_vroom returned or raised
    health,       \* the inputs of handle_health: binary on disk, probe
    calls,        \* the functions of the pipeline called for this request
    sent,         \* the responses written for this request
    escaped       \* the exception that left the handler, "none" if none

vars == <<pc, endpoint, payload, built, tmp_exists, proc, ran, health, calls, sent, escaped>>

NoBuild == [request |-> Null, vehicle_map |-> <<>>, job_map |-> <<>>]
NoProc == [kind |-> "none"]
NoRun == [exc |-> "pending", msg |-> "", v |-> Null]
NoHealth == [kind |-> "none"]

Init ==
    /\ pc = "idle"
    /\ endpoint = "none"
    /\ payload = Null
    /\ built = NoBuild
    /\ tmp_exists = FALSE
    /\ proc = NoProc
    /\ ran = NoRun
    /\ health = NoHealth
    /\ calls = {}
    /\ sent = <<>>
    /\ escaped = "none"

\* lines 323-333: the Content-Length header and the body
ReadRequest ==
    /\ pc = "idle"
    /\ endpoint' = "optimize"
    /\ \E content_length \in ContentLengths, body \in Bodies :
          IF ~isdigit(content_length)
          THEN /\ sent' = <<Response(400, "error" :> JStr("Content-Length header must be set."))>>
               /\ pc' = "done"
               /\ payload' = payload
          ELSE IF decode_body(body).exc # "none"
               THEN /\ sent' = <<Response(400, "error" :> JStr("Request body must be valid JSON."))>>
                    /\ pc' = "done"
                    /\ payload' = payload
               ELSE /\ sent' = sent
                    /\ pc' = "parsed"
                    /\ payload' = decode_body(body).v
    /\ UNCHANGED <<built, tmp_exists, proc, ran, health, calls, escaped>>

\* lines 335-338
Validate ==
    /\ pc = "parsed"
    /\ calls' = calls \cup {"validate_payload"}
    /\ LET errors == validate_payload(payload) IN
       IF errors # <<>>
       THEN /\ sent' = <<Response(400,
                            ("error" :> JStr("Validation failed."))
                            @@ ("issues" :> List([i \in 1..Len(errors) |-> JStr(errors[i])])))>>
            /\ pc' = "done"
       ELSE /\ sent' = sent
            /\ pc' = "valid"
    /\ UNCHANGED <<endpoint, payload, built, tmp_exists, proc, ran, health, escaped>>

\* line 341; a KeyError or TypeError of the translation is caught by no
\* except clause of handle_optimize
Build ==
    /\ pc = "valid"
    /\ calls' = calls \cup {"build_vroom_request"}
    /\ IF translation_raises(payload)
       THEN /\ escaped' = "KeyError"
            /\ pc' = "done"
            /\ built' = built
       ELSE /\ escaped' = escaped
            /\ pc' = "built"
            /\ built' = build_vroom_request(payload)
    /\ UNCHANGED <<endpoint, payload, tmp_exists, proc, ran, health, sent>>

\* line 342, lines 168-171: run_vroom writes the request to its input file
WriteInput ==
    /\ pc = "built"
    /\ calls' = calls \cup {"run_vroom"}
    /\ tmp_exists' = TRUE
    /\ pc' = "tmp"
    /\ UNCHANGED <<endpoint, payload, built, proc, ran, health, sent, escaped>>

\* lines 173-206: the solver process, the finally clause, the checks of the
\* result
RunSolver ==
    /\ pc = "tmp"
    /\ \E p \in ProcOutcomes :
          /\ proc' = p
          /\ tmp_exists' = exists_after_finally(p, tmp_exists)
          /\ ran' = run_vroom_result(p)
    /\ pc' = "returned"
    /\ UNCHANGED <<endpoint, payload, built, health, calls, sent, escaped>>

\* lines 343-364
Finish ==
    /\ pc = "returned"
    /\ calls' = IF ran.exc = "none" THEN calls \cup {"add_external_ids"} ELSE calls
    /\ LET out == finish_optimize(ran, built.vehicle_map, built.job_map) IN
          /\ sent' = out.sent
          /\ escaped' = out.escaped
    /\ pc' = "done"
    /\ UNCHANGED <<endpoint, payload, built, tmp_exists, proc, ran, health>>

\* lines 271-295
HandleHealth ==
    /\ pc = "idle"
    /\ endpoint' = "health"
    /\ \E vroom_ready \in BOOLEAN, probe \in ProbeOutcomes :
          /\ health' = [kind |-> "health", vroom_ready |-> vroom_ready, probe |-> probe]
          /\ sent' = handle_health(vroom_ready, probe).sent
          /\ escaped' = handle_health(vroom_ready, probe).escaped
    /\ pc' = "done"
    /\ UNCHANGED <<payload, built, tmp_exists, proc, ran, calls>>

\* the worker of the next request starts afresh: nothing is kept
NextRequest ==
    /\ pc = "done"
    /\ pc' = "idle"
    /\ endpoint' = "none"
    /\ payload' = Null
    /\ built' = NoBuild
    /\ tmp_exists' = FALSE
    /\ proc' = NoProc
    /\ ran' = NoRun
    /\ health' = NoHealth
    /\ calls' = {}
    /\ sent' = <<>>
    /\ escaped' = "none"

Next ==
    \/ ReadRequest
    \/ Validate
    \/ Build
    \/ WriteInput
    \/ RunSolver
    \/ Finish
    \/ HandleHealth
    \/ NextRequest

Spec == Init /\ [][Next]_vars

(***************************************************************************)
(* Properties.                                                             *)
(***************************************************************************)
OptimizeDone == pc = "done" /\ endpoint = "optimize"
Answered(status) == Len(sent) = 1 /\ sent[1].status = status
\* handle_optimize answered 200: the solver's output was decoded (ran.v) and
\* reconciled
Succeeded == OptimizeDone /\ Answered(200)

\* C1: on every 200 response of the optimize endpoint, 'raw' is the solver's
\* output as decoded from its standard output, without any external-id
\* annotation.
C1_RawIsSolverOutput ==
    Succeeded => sent[1].body["raw"] = ran.v

\* C2: every optimize request ends with exactly one JSON response whose
\* status is 200, 400, 502 or 504, and no exception leaves handle_optimize.
C2_OneStructuredResponse ==
    OptimizeDone =>
        /\ escaped = "none"
        /\ Len(sent) = 1
        /\ sent[1].status \in {200, 400, 502, 504}

SolverExited == OptimizeDone /\ proc.kind = "exit"

\* C4: a timeout yields 504 with an 'error' field; a non-zero exit, an empty
\* standard output and a malformed standard output each yield 502 with an
\* 'error' and a 'details' field.
C4_FailureShapes ==
    /\ (OptimizeDone /\ proc.kind = "timeout") =>
          (Answered(504) /\ "error" \in DOMAIN sent[1].body)
    /\ (SolverExited /\ (\/ proc.returncode # 0
                         \/ proc.stdout.kind \in {"blank", "malformed"})) =>
          (Answered(502) /\ {"error", "details"} \subseteq DOMAIN sent[1].body)

SolverFailedWithText == SolverExited /\ proc.returncode # 0 /\ proc.stderr # ""

\* C5 as stated: after a non-zero exit with a non-empty error stream, the
\* response is 502 and 'details' is that text character for character.
C5_DetailsVerbatim ==
    SolverFailedWithText =>
        (Answered(502) /\ sent[1].body["details"] = JStr(proc.stderr))

AllSpace(s) == \A i \in 1..Len(s) : IsSpace(SubSeq(s, i, i))
\* d is s without a leading and a trailing run of whitespace, and neither
\* begins nor ends with whitespace
TrimOf(d, s) ==
    /\ Len(d) > 0
    /\ ~IsSpace(SubSeq(d, 1, 1))
    /\ ~IsSpace(SubSeq(d, Len(d), Len(d)))
    /\ \E i \in 0..Len(s) :
          /\ i + Len(d) <= Len(s)
          /\ AllSpace(SubSeq(s, 1, i))
          /\ d = SubSeq(s, i + 1, i + Len(d))
          /\ AllSpace(SubSeq(s, i + Len(d) + 1, Len(s)))

\* C5 amended: after a non-zero exit with a non-empty error stream, the
\* response is 502 and 'details' is that text with its leading and trailing
\* whitespace removed, or "Unknown VROOM error" when the text is only
\* whitespace.
C5_DetailsTrimmed ==
    SolverFailedWithText =>
        /\ Answered(502)
        /\ sent[1].body["details"].t = "str"
        /\ IF AllSpace(proc.stderr)
           THEN sent[1].body["details"].s = "Unknown VROOM error"
           ELSE TrimOf(sent[1].body["details"].s, proc.stderr)

C5_Witness ==
    /\ SolverFailedWithText
    /\ Answered(502)
    /\ sent[1].body["details"] # JStr(proc.stderr)
    /\ sent[1].body["details"] = JStr("routing error: no route")

Required == {"depot", "vehicles", "jobs"}
Missing(p) == Required \ DOMAIN p.o
RequiredMessage(field) ==
    CASE field = "depot" -> "'depot' is required and must be an object."
      [] field = "vehicles" -> "'vehicles' is required and must be a non-empty array."
      [] field = "jobs" -> "'jobs' is required and must be a non-empty array."
Occurrences(x, seq) == Cardinality({i \in 1..Len(seq) : seq[i] = x})

\* C6: for a JSON-object payload missing any of 'depot', 'vehicles', 'jobs',
\* the issue list holds one message naming each missing field, the answer is
\* 400 with those issues, and neither build_vroom_request nor run_vroom is
\* called: no input file, no solver process.
C6_MissingFieldsRejected ==
    (IsDict(payload) /\ Missing(payload) # {}) =>
        /\ calls \subseteq {"validate_payload"}
        /\ ~tmp_exists
        /\ proc = NoProc
        /\ pc \in {"parsed", "done"}
        /\ pc = "done" =>
              /\ escaped = "none"
              /\ Answered(400)
              /\ "issues" \in DOMAIN sent[1].body
              /\ \A field \in Missing(payload) :
                    Occurrences(JStr(RequiredMessage(field)), sent[1].body["issues"].l) = 1

C6_Witness ==
    /\ OptimizeDone
    /\ IsDict(payload)
    /\ Missing(payload) = Required
    /\ Answered(400)
    /\ Len(sent[1].body["issues"].l) = 3

\* the id the caller supplied for the i-th vehicle or job, or the default
Supplied(entity, prefix, i) ==
    Get(entity.o, "id", JStr(prefix \o "-" \o ToString(i)))
\* the text of a supplied id: the id itself when it is a string, the decimal
\* digits of an integer
TextOf(id) ==
    CASE id.t = "str" -> id
      [] id.t = "int" -> JStr(ToString(id.n))

\* every reference of the decoded solver output to a vehicle 1..n or a job
\* 1..m carries, in the response's routes and unassigned, the external id
\* Expected(entity, prefix, i)
RoundTrip(Expected(_, _, _)) ==
    LET vehicles == payload.o["vehicles"].l
        jobs == payload.o["jobs"].l
        in_routes == Get(ran.v.o, "routes", List(<<>>)).l
        out_routes == sent[1].body["routes"].l
        in_unassigned == Get(ran.v.o, "unassigned", List(<<>>)).l
        out_unassigned == sent[1].body["unassigned"].l
        Refers(entry, key, n) ==
            /\ key \in DOMAIN entry.o
            /\ entry.o[key].t = "int"
            /\ entry.o[key].n \in 1..n
        Carries(entry, ext_key, id) ==
            ext_key \in DOMAIN entry.o /\ entry.o[ext_key] = id
    IN /\ Len(out_routes) = Len(in_routes)
       /\ Len(out_unassigned) = Len(in_unassigned)
       /\ \A i \in 1..Len(in_routes) :
             /\ Refers(in_routes[i], "vehicle", Len(vehicles)) =>
                   LET v == in_routes[i].o["vehicle"].n IN
                   Carries(out_routes[i], "vehicle_external_id",
                           Expected(vehicles[v], "vehicle", v))
             /\ LET in_steps == Get(in_routes[i].o, "steps", List(<<>>)).l
                    out_steps == Get(out_routes[i].o, "steps", List(<<>>)).l
                IN /\ Len(out_steps) = Len(in_steps)
                   /\ \A k \in 1..Len(in_steps) :
                         Refers(in_steps[k], "job", Len(jobs)) =>
                             LET j == in_steps[k].o["job"].n IN
                             Carries(out_steps[k], "job_external_id",
                                     Expected(jobs[j], "job", j))
       /\ \A i \in 1..Len(in_unassigned) :
             Refers(in_unassigned[i], "id", Len(jobs)) =>
                 LET j == in_unassigned[i].o["id"].n IN
                 Carries(out_unassigned[i], "job_external_id",
                         Expected(jobs[j], "job", j))

SameValue(entity, prefix, i) == Supplied(entity, prefix, i)
TextOfSupplied(entity, prefix, i) == TextOf(Supplied(entity, prefix, i))

\* C7 as stated: every reference to vehicle i or job j of the request is
\* annotated with exactly the id value the caller supplied, unconverted, or
\* with "vehicle-<i>" / "job-<j>" when none was supplied.
C7_ExactSuppliedId ==
    Succeeded => RoundTrip(SameValue)

\* C7 amended: every reference to vehicle i or job j of the request is
\* annotated with the text of the id the caller supplied (a string id as it
\* is, an integer id as its decimal digits), or with "vehicle-<i>" /
\* "job-<j>" when none was supplied.
C7_TextOfSuppliedId ==
    Succeeded => RoundTrip(TextOfSupplied)

C7_Witness ==
    /\ Succeeded
    /\ Len(payload.o["vehicles"].l) = 2
    /\ Len(sent[1].body["routes"].l) = 2
    /\ \E i \in 1..2 :
          LET route == sent[1].body["routes"].l[i].o IN
          /\ Get(route, "vehicle", Null) = JInt(2)
          /\ Get(payload.o["vehicles"].l[2].o, "id", Null) = JInt(7)
          /\ Get(route, "vehicle_external_id", Null) = JStr("7")
    /\ \E i \in 1..2 :
          LET route == sent[1].body["routes"].l[i].o IN
          /\ Get(route, "vehicle", Null) = JInt(1)
          /\ Get(payload.o["vehicles"].l[1].o, "id", Null) = JStr("truck")
          /\ Get(route, "vehicle_external_id", Null) = JStr("truck")

HealthDone == pc = "done" /\ endpoint = "health"
ProbeOk ==
    /\ health.probe.kind = "response"
    /\ health.probe.status = 200
    /\ health.probe.body.kind = "json"
    /\ IsDict(health.probe.body.doc)
    /\ Get(health.probe.body.doc.o, "code", Null) = JStr("Ok")

\* C8: every GET /health is answered; 'checks' reports vroom_binary ok or
\* missing, osrm ok or down, and an osrm_detail; the answer is 200 "ok"
\* exactly when the binary is on disk and the probe returned 200 with code
\* "Ok", and 503 "degraded" in every other case.
C8_HealthAlwaysAnswers ==
    HealthDone =>
        /\ escaped = "none"
        /\ Len(sent) = 1
        /\ LET checks == sent[1].body["checks"].o IN
           /\ checks["vroom_binary"] \in {JStr("ok"), JStr("missing")}
           /\ checks["osrm"] \in {JStr("ok"), JStr("down")}
           /\ "osrm_detail" \in DOMAIN checks
        /\ IF health.vroom_ready /\ ProbeOk
           THEN sent[1].status = 200 /\ sent[1].body["status"] = JStr("ok")
           ELSE sent[1].status = 503 /\ sent[1].body["status"] = JStr("degraded")

IsCoordinate(v) ==
    /\ v.t = "list"
    /\ Len(v.l) = 2
    /\ \A i \in 1..2 : v.l[i].t \in {"int", "float"}
    /\ v.l[1].n \in -180..180
    /\ v.l[2].n \in -90..90
SingleInt(v, low) ==
    v.t = "list" /\ Len(v.l) = 1 /\ v.l[1].t = "int" /\ v.l[1].n >= low

\* C9: for every payload validate_payload accepts, build_vroom_request
\* completes; every job record has a non-negative integer 'service' (300
\* when the job gives none) and a one-element 'delivery' of a positive
\* integer (1 when no demand is given); every vehicle record has a
\* one-element positive-integer 'capacity' and valid 'start' and 'end' (the
\* depot's location when omitted).
C9_TranslationWellFormed ==
    ("build_vroom_request" \in calls) =>
        /\ escaped # "KeyError"
        /\ LET depot_location == payload.o["depot"].o["location"]
               in_vehicles == payload.o["vehicles"].l
               in_jobs == payload.o["jobs"].l
               out_vehicles == built.request.o["vehicles"].l
               out_jobs == built.request.o["jobs"].l
           IN /\ Len(out_vehicles) = Len(in_vehicles)
              /\ Len(out_jobs) = Len(in_jobs)
              /\ \A i \in 1..Len(out_jobs) :
                    LET job == out_jobs[i].o IN
                    /\ job["service"].t = "int"
                    /\ job["service"].n >= 0
                    /\ "service" \notin DOMAIN in_jobs[i].o => job["service"] = JInt(300)
                    /\ SingleInt(job["delivery"], 1)
                    /\ "demand" \notin DOMAIN in_jobs[i].o => job["delivery"] = List(<<JInt(1)>>)
              /\ \A i \in 1..Len(out_vehicles) :
                    LET vehicle == out_vehicles[i].o IN
                    /\ SingleInt(vehicle["capacity"], 1)
                    /\ IsCoordinate(vehicle["start"])
                    /\ IsCoordinate(vehicle["end"])
                    /\ "start" \notin DOMAIN in_vehicles[i].o => vehicle["start"] = depot_location
                    /\ "end" \notin DOMAIN in_vehicles[i].o => vehicle["end"] = depot_location

\* the solver's output is an object whose routes, steps and unassigned
\* entries are objects with scalar indices
Scalar(v) == v.t \in {"null", "bool", "int", "float", "str"}
EntriesOk(entries, key) ==
    /\ IsList(entries)
    /\ \A i \in 1..Len(entries.l) :
          IsDict(entries.l[i]) /\ Scalar(Get(entries.l[i].o, key, Null))
WellShaped(solution) ==
    /\ IsDict(solution)
    /\ EntriesOk(Get(solution.o, "routes", List(<<>>)), "vehicle")
    /\ \A i \in 1..Len(Get(solution.o, "routes", List(<<>>)).l) :
          EntriesOk(Get(solution.o["routes"].l[i].o, "steps", List(<<>>)), "job")
    /\ EntriesOk(Get(solution.o, "unassigned", List(<<>>)), "id")

\* entry `after` is entry `before` with at most ext_key added: added exactly
\* when the index under key is in 1..n, every other field as it was
\* (except the fields listed in `nested`, compared separately)
OnlyAdds(before, after, key, ext_key, n, nested) ==
    LET index == Get(before.o, key, Null)
        known == index.t = "int" /\ index.n \in 1..n
    IN /\ DOMAIN after.o = DOMAIN before.o \cup (IF known THEN {ext_key} ELSE {})
       /\ \A k \in DOMAIN before.o \ nested : after.o[k] = before.o[k]
       /\ (~known /\ nested \cap DOMAIN before.o = {}) => after = before

====
